---------------------------- MODULE Spec2Model ----------------------------
(***************************************************************************)
(* Model of the Shopify -> LearnWorlds webhook bridge.                     *)
(*                                                                         *)
(* Part 1: the mapping store (src/utils/productCourseMapping.js): three    *)
(* JavaScript objects kept in module scope, each mirrored in a JSON file,  *)
(* and the course resolver that reads them.                                *)
(*                                                                         *)
(* Part 2: the LearnWorlds service and the webhook routes, in the versions *)
(* the repository holds.                                                   *)
(*                                                                         *)
(* JavaScript strings are sequences of one-character strings, so that      *)
(* toLowerCase, trim and includes are computed, not assumed.               *)
(***************************************************************************)
EXTENDS Integers, Sequences, FiniteSets, TLC

VARIABLES
  productToCourseMap,     \* productCourseMapping.js:77, in-memory object
  bundleToComponentsMap,  \* productCourseMapping.js:78
  bundleNameToIdMap,      \* productCourseMapping.js:137
  fileProduct,            \* contents of MAPPING_FILE_PATH, or NoFile
  fileBundle,             \* contents of BUNDLE_MAPPING_FILE_PATH, or NoFile
  fileBundleName,         \* contents of BUNDLE_NAME_MAPPING_FILE_PATH, or NoFile
  faults,                 \* persistence failures injected so far
  inserted,               \* history: bundle-name keys in the order they were created
  fileInserted,           \* history: the value of inserted at the last write of the file
  last,                   \* the last store operation and what it returned
  peer,                   \* the in-memory objects of another process on the same files
  focus,                  \* the store this behaviour works on, or "all"
  service,                \* which learnWorldsService.js the process has loaded
  router,                 \* which webhook routes file the process has loaded
  lwUsers,                \* LearnWorlds: the emails that have a user
  lwEnrolled,             \* LearnWorlds: the <<email, course>> enrollments
  req                     \* the webhook request being handled

peerVars == <<peer, focus>>

storeVars == <<productToCourseMap, bundleToComponentsMap, bundleNameToIdMap,
               fileProduct, fileBundle, fileBundleName, faults,
               inserted, fileInserted, last, peerVars>>

hookVars == <<service, router, lwUsers, lwEnrolled, req>>

vars == <<storeVars, hookVars>>

-----------------------------------------------------------------------------
(* JavaScript values *)

\* null and undefined: not strings (their one element is not a character)
Null == <<"null">>
Undefined == <<"undefined">>

\* a file: whether it exists and, if so, the JSON text in it
NoFile == [exists |-> FALSE, text |-> <<>>]
FileOf(text) == [exists |-> TRUE, text |-> text]

UpperChars == <<"A","B","C","D","E","F","G","H","I","J","K","L","M",
                "N","O","P","Q","R","S","T","U","V","W","X","Y","Z">>
LowerChars == <<"a","b","c","d","e","f","g","h","i","j","k","l","m",
                "n","o","p","q","r","s","t","u","v","w","x","y","z">>
DigitChars == <<"0","1","2","3","4","5","6","7","8","9">>
SpaceChars == {" ", "\t", "\n", "\r"}

\* String.prototype.toLowerCase, one character
LowerChar(c) ==
  IF \E i \in 1..26 : UpperChars[i] = c
    THEN LowerChars[CHOOSE i \in 1..26 : UpperChars[i] = c]
    ELSE c

\* String.prototype.toLowerCase
ToLowerCase(s) == [i \in 1..Len(s) |-> LowerChar(s[i])]

\* String.prototype.trim: drop the white space at both ends
Trim(s) ==
  LET keep == {i \in 1..Len(s) : s[i] \notin SpaceChars}
  IN  IF keep = {} THEN <<>>
      ELSE LET lo == CHOOSE i \in keep : \A j \in keep : i <= j
               hi == CHOOSE i \in keep : \A j \in keep : j <= i
           IN  SubSeq(s, lo, hi)

\* String.prototype.includes
Includes(hay, needle) ==
  \E i \in 0..(Len(hay) - Len(needle)) : SubSeq(hay, i + 1, i + Len(needle)) = needle

\* JavaScript truthiness of a string-or-null value
Truthy(v) == v # Undefined /\ v # Null /\ v # <<>>

-----------------------------------------------------------------------------
(* JavaScript objects: own properties in OrdinaryOwnPropertyKeys order *)

DigitVal(c) == (CHOOSE i \in 1..10 : DigitChars[i] = c) - 1
IsDigit(c) == \E i \in 1..10 : DigitChars[i] = c

RECURSIVE NumVal(_)
NumVal(s) == IF s = <<>> THEN 0
             ELSE 10 * NumVal(SubSeq(s, 1, Len(s) - 1)) + DigitVal(s[Len(s)])

\* a canonical array index ("0", "7", "2024"; not "", "07", "-1")
IsArrayIndex(k) ==
  /\ Len(k) > 0
  /\ \A i \in 1..Len(k) : IsDigit(k[i])
  /\ (Len(k) > 1 => k[1] # "0")
  /\ Len(k) <= 9

\* an object is the sequence of its [key, val] properties in enumeration order
EmptyObj == <<>>

ObjHas(o, k) == \E i \in 1..Len(o) : o[i].key = k
ObjIndex(o, k) == CHOOSE i \in 1..Len(o) : o[i].key = k
\* o[k]
ObjGet(o, k) == IF ObjHas(o, k) THEN o[ObjIndex(o, k)].val ELSE Undefined
ObjKeys(o) == [i \in 1..Len(o) |-> o[i].key]

\* where a new key is created: array indices ascending first, then the
\* other keys in creation order
InsertAt(o, k) ==
  IF IsArrayIndex(k)
    THEN Cardinality({i \in 1..Len(o) :
                        IsArrayIndex(o[i].key) /\ NumVal(o[i].key) < NumVal(k)}) + 1
    ELSE Len(o) + 1

\* o[k] = v
ObjSet(o, k, v) ==
  IF ObjHas(o, k)
    THEN [o EXCEPT ![ObjIndex(o, k)] = [key |-> k, val |-> v]]
    ELSE LET p == InsertAt(o, k)
         IN  SubSeq(o, 1, p - 1) \o <<[key |-> k, val |-> v]>> \o SubSeq(o, p, Len(o))

\* delete o[k]
ObjDelete(o, k) ==
  IF ObjHas(o, k)
    THEN LET p == ObjIndex(o, k) IN SubSeq(o, 1, p - 1) \o SubSeq(o, p + 1, Len(o))
    ELSE o

\* JSON.stringify of a flat object: its properties in enumeration order
JsonStringify(o) == o

\* JSON.parse: the properties of the text are created one after the other
RECURSIVE JsonParseFrom(_, _)
JsonParseFrom(text, acc) ==
  IF text = <<>> THEN acc
  ELSE JsonParseFrom(Tail(text), ObjSet(acc, Head(text).key, Head(text).val))

JsonParse(text) == JsonParseFrom(text, EmptyObj)

-----------------------------------------------------------------------------
(* Inputs *)

\* Shopify product ids
P111 == <<"1","1","1">>
P222 == <<"2","2","2">>
Products == {P111, P222}

\* LearnWorlds course ids
CourseA == <<"c","o","u","r","s","e","A">>
CourseB == <<"c","o","u","r","s","e","B">>
Courses == {CourseA, CourseB}

\* bundle product ids and component lists
B900 == <<"9","0","0">>
BundleIds == {B900}
ComponentLists == {<<P111>>, <<P111, P222>>}

\* bundle names as an administrator types them
NameSummerBundle == <<"S","u","m","m","e","r"," ","B","u","n","d","l","e">>
NameBundle2 == <<" ","B","U","N","D","L","E"," ","2"," ">>
Name2 == <<"2">>
BundleNames == {NameSummerBundle, NameBundle2, Name2}

\* product titles as Shopify sends them
TitleSummerBundlePack == <<"S","u","m","m","e","r"," ","B","u","n","d","l","e"," ","P","a","c","k">>
TitleSummerBundle2 == <<"S","u","m","m","e","r"," ","B","u","n","d","l","e"," ","2">>
TitleBundle2 == <<"B","u","n","d","l","e"," ","2">>
TitleCourse2 == <<"C","o","u","r","s","e"," ","2">>
TitleEmpty == <<>>
Titles == {TitleSummerBundlePack, TitleSummerBundle2, TitleBundle2, TitleCourse2, TitleEmpty}

\* the literal 'bundle' of getCourseIdForProduct
StrBundle == <<"b","u","n","d","l","e">>

\* outcomes of the file system during one store operation
IoOk == "ok"
IoWriteFail == "writeFail"   \* writeFileSync throws: caught and logged
IoMkdirFail == "mkdirFail"   \* mkdirSync throws in ensureDirectoryExists: not caught
IoReadFail == "readFail"     \* readFileSync or JSON.parse throws: caught and logged

-----------------------------------------------------------------------------
(* productCourseMapping.js: load and save *)

\* what the file system may do in a save and in a load, with at most f failures
\* in a behaviour
IoChoices(f) == IF faults < f THEN {IoOk, IoWriteFail, IoMkdirFail} ELSE {IoOk}
IoLoadChoices(f) == IF faults < f THEN {IoOk, IoReadFail, IoMkdirFail} ELSE {IoOk}
FaultsAfter(io) == IF io = IoOk THEN faults ELSE faults + 1

\* loadMapping, loadBundleMapping, loadBundleNameMapping: the parsed file, or
\* {} when the file does not exist or cannot be read
loadMapping(file, io) ==
  IF file.exists /\ io = IoOk THEN JsonParse(file.text) ELSE EmptyObj

\* a save that never reaches the file
saveMapping_Skipped(file, mapping, io) == file

\* saveMapping, saveBundleMapping, saveBundleNameMapping: the file after the
\* call; a failed write is caught and leaves the file as it was
saveMapping(file, mapping, io) ==
  IF io = IoOk THEN FileOf(JsonStringify(mapping)) ELSE file

\* ensureDirectoryExists runs outside the try block: its exception reaches
\* the caller
Raises(io) == io = IoMkdirFail

-----------------------------------------------------------------------------
(* productCourseMapping.js: the resolver *)

\* the first entry, in Object.entries order, whose lower-cased key the
\* normalized name includes
PartialMatches(map, normalizedName) ==
  {i \in 1..Len(map) : Includes(normalizedName, ToLowerCase(map[i].key))}

FirstOf(S) == CHOOSE i \in S : \A j \in S : i <= j

LastOf(S) == CHOOSE i \in S : \A j \in S : j <= i

\* findBundleCourseIdByName without its exact-match lookup (lines 150-153)
findBundleCourseIdByName_NoExact(map, productName) ==
  LET normalizedName == Trim(ToLowerCase(productName))
      matches == PartialMatches(map, normalizedName)
  IN  IF matches # {} THEN map[FirstOf(matches)].val ELSE Null

\* findBundleCourseIdByName with a loop that keeps the last match, not the first
findBundleCourseIdByName_LastMatch(map, productName) ==
  LET normalizedName == Trim(ToLowerCase(productName))
      matches == PartialMatches(map, normalizedName)
  IN  IF Truthy(ObjGet(map, normalizedName)) THEN ObjGet(map, normalizedName)
      ELSE IF matches # {} THEN map[LastOf(matches)].val
      ELSE Null

findBundleCourseIdByNameIn(map, productName) ==
  LET normalizedName == Trim(ToLowerCase(productName))
      matches == PartialMatches(map, normalizedName)
  IN  IF Truthy(ObjGet(map, normalizedName)) THEN ObjGet(map, normalizedName)
      ELSE IF matches # {} THEN map[FirstOf(matches)].val
      ELSE Null

\* getCourseIdForProduct trying the bundle name before the direct mapping
getCourseIdForProduct_BundleFirst(pmap, nmap, productId, productName) ==
  LET directCourseId == ObjGet(pmap, productId)
      bundleCourseId == findBundleCourseIdByNameIn(nmap, productName)
  IN  IF productName # <<>> /\ Includes(ToLowerCase(productName), StrBundle)
           /\ Truthy(bundleCourseId)
        THEN bundleCourseId
      ELSE IF Truthy(directCourseId) THEN directCourseId
      ELSE Null

\* getCourseIdForProduct without the test for 'bundle' in the title
getCourseIdForProduct_AnyTitle(pmap, nmap, productId, productName) ==
  LET directCourseId == ObjGet(pmap, productId)
  IN  IF Truthy(directCourseId) THEN directCourseId
      ELSE IF productName # <<>>
             THEN LET bundleCourseId == findBundleCourseIdByNameIn(nmap, productName)
                  IN  IF Truthy(bundleCourseId) THEN bundleCourseId ELSE Null
      ELSE Null

getCourseIdForProductIn(pmap, nmap, productId, productName) ==
  LET directCourseId == ObjGet(pmap, productId)
  IN  IF Truthy(directCourseId) THEN directCourseId
      ELSE IF productName # <<>> /\ Includes(ToLowerCase(productName), StrBundle)
             THEN LET bundleCourseId == findBundleCourseIdByNameIn(nmap, productName)
                  IN  IF Truthy(bundleCourseId) THEN bundleCourseId ELSE Null
      ELSE Null

findBundleCourseIdByName(productName) ==
  findBundleCourseIdByNameIn(bundleNameToIdMap, productName)

\* a resolver that, for a bundle product with no direct mapping, takes the
\* course of the bundle's first mapped component
getCourseIdForProduct_ViaComponents(stores, productId, productName) ==
  LET components == IF ObjHas(stores.bundle, productId)
                    THEN ObjGet(stores.bundle, productId) ELSE <<>>
      mapped == {k \in DOMAIN components : ObjHas(stores.product, components[k])}
  IN  IF ~ObjHas(stores.product, productId) /\ mapped # {}
      THEN ObjGet(stores.product, components[CHOOSE k \in mapped : \A k2 \in mapped : k <= k2])
      ELSE getCourseIdForProductIn(stores.product, stores.bundleName, productId, productName)

\* getCourseIdForProduct as a process runs it on its module-level objects:
\* it reads productToCourseMap and, through findBundleCourseIdByName,
\* bundleNameToIdMap
getCourseIdForProductOf(stores, productId, productName) ==
  getCourseIdForProductIn(stores.product, stores.bundleName, productId, productName)

\* the module-level objects of this process
ThisProcess ==
  [product |-> productToCourseMap, bundle |-> bundleToComponentsMap,
   bundleName |-> bundleNameToIdMap]

getCourseIdForProduct(productId, productName) ==
  getCourseIdForProductOf(ThisProcess, productId, productName)

getBundleComponents(bundleProductId) ==
  IF ObjHas(bundleToComponentsMap, bundleProductId)
    THEN ObjGet(bundleToComponentsMap, bundleProductId)
    ELSE <<>>

-----------------------------------------------------------------------------
(* productCourseMapping.js: the operations, as the module exports them *)

\* the record of an operation: what was called, on which store, with which
\* key and argument, what it returned, whether it raised, what the file
\* system did, and (for a read) the latest set, remove or list before it
Mut(op, store, key, arg, raised) ==
  [op |-> op, store |-> store, key |-> key, arg |-> arg, raised |-> raised]

NoMut == Mut("none", "none", <<>>, <<>>, FALSE)

Op(op, store, key, arg, out, raised) ==
  [op |-> op, store |-> store, key |-> key, arg |-> arg, out |-> out,
   raised |-> raised, after |-> NoMut, io |-> IoOk]

NoOp == Op("none", "none", <<>>, <<>>, <<>>, FALSE)

LastMut ==
  IF last.op \in {"set", "remove", "list"}
    THEN Mut(last.op, last.store, last.key, last.arg, last.raised)
    ELSE last.after

Read(op, store, key, arg, out) ==
  [Op(op, store, key, arg, out, FALSE) EXCEPT !.after = LastMut]

setProductCourseMapping(productId, courseId, io) ==
  LET m == ObjSet(productToCourseMap, productId, courseId)
  IN  /\ productToCourseMap' = m
      /\ fileProduct' = saveMapping(fileProduct, m, io)
      /\ faults' = FaultsAfter(io)
      /\ last' = [Op("set", "product", productId, courseId, <<>>, Raises(io)) EXCEPT !.io = io]
      /\ UNCHANGED <<bundleToComponentsMap, bundleNameToIdMap, fileBundle,
                     fileBundleName, inserted, fileInserted, hookVars, peerVars>>

removeProductCourseMapping(productId, io) ==
  LET m == ObjDelete(productToCourseMap, productId)
  IN  /\ productToCourseMap' = m
      /\ fileProduct' = saveMapping(fileProduct, m, io)
      /\ faults' = FaultsAfter(io)
      /\ last' = [Op("remove", "product", productId, <<>>, <<>>, Raises(io)) EXCEPT !.io = io]
      /\ UNCHANGED <<bundleToComponentsMap, bundleNameToIdMap, fileBundle,
                     fileBundleName, inserted, fileInserted, hookVars, peerVars>>

\* a list answered from the in-memory object, with no reload
getAllMappings_Cached(io) ==
  /\ faults' = FaultsAfter(io)
  /\ last' = [Op("list", "product", <<>>, <<>>, productToCourseMap, Raises(io)) EXCEPT !.io = io]
  /\ UNCHANGED <<productToCourseMap, bundleToComponentsMap, bundleNameToIdMap, fileProduct,
                 fileBundle, fileBundleName, inserted, fileInserted, hookVars, peerVars>>

\* the reload replaces the in-memory object; a mkdir failure leaves it
getAllMappings(io) ==
  /\ productToCourseMap' = IF Raises(io) THEN productToCourseMap
                           ELSE loadMapping(fileProduct, io)
  /\ faults' = FaultsAfter(io)
  /\ last' = [Op("list", "product", <<>>, <<>>, productToCourseMap', Raises(io)) EXCEPT !.io = io]
  /\ UNCHANGED <<bundleToComponentsMap, bundleNameToIdMap, fileProduct, fileBundle,
                 fileBundleName, inserted, fileInserted, hookVars, peerVars>>

setBundleComponents(bundleProductId, componentProductIds, io) ==
  LET m == ObjSet(bundleToComponentsMap, bundleProductId, componentProductIds)
  IN  /\ bundleToComponentsMap' = m
      /\ fileBundle' = saveMapping(fileBundle, m, io)
      /\ faults' = FaultsAfter(io)
      /\ last' = [Op("set", "bundle", bundleProductId, componentProductIds, <<>>, Raises(io)) EXCEPT !.io = io]
      /\ UNCHANGED <<productToCourseMap, bundleNameToIdMap, fileProduct,
                     fileBundleName, inserted, fileInserted, hookVars, peerVars>>

removeBundleComponents(bundleProductId, io) ==
  LET m == ObjDelete(bundleToComponentsMap, bundleProductId)
  IN  /\ bundleToComponentsMap' = m
      /\ fileBundle' = saveMapping(fileBundle, m, io)
      /\ faults' = FaultsAfter(io)
      /\ last' = [Op("remove", "bundle", bundleProductId, <<>>, <<>>, Raises(io)) EXCEPT !.io = io]
      /\ UNCHANGED <<productToCourseMap, bundleNameToIdMap, fileProduct,
                     fileBundleName, inserted, fileInserted, hookVars, peerVars>>

getAllBundleMappings(io) ==
  /\ bundleToComponentsMap' = IF Raises(io) THEN bundleToComponentsMap
                              ELSE loadMapping(fileBundle, io)
  /\ faults' = FaultsAfter(io)
  /\ last' = [Op("list", "bundle", <<>>, <<>>, bundleToComponentsMap', Raises(io)) EXCEPT !.io = io]
  /\ UNCHANGED <<productToCourseMap, bundleNameToIdMap, fileProduct, fileBundle,
                 fileBundleName, inserted, fileInserted, hookVars, peerVars>>

\* the keys of hist that obj still holds, then the keys of obj that hist lacks
Without(hist, k) == SelectSeq(hist, LAMBDA x : x # k)

\* setBundleNameMapping storing under the name as typed, not the normalized name
setBundleNameMapping_RawKey(bundleName, courseId, io) ==
  LET m == ObjSet(bundleNameToIdMap, bundleName, courseId)
      h == IF ObjHas(bundleNameToIdMap, bundleName) THEN inserted
           ELSE Append(inserted, bundleName)
  IN  /\ bundleNameToIdMap' = m
      /\ inserted' = h
      /\ fileBundleName' = saveMapping(fileBundleName, m, io)
      /\ fileInserted' = IF io = IoOk THEN h ELSE fileInserted
      /\ faults' = FaultsAfter(io)
      /\ last' = [Op("set", "bundleName", bundleName, courseId, <<>>, Raises(io)) EXCEPT !.io = io]
      /\ UNCHANGED <<productToCourseMap, bundleToComponentsMap, fileProduct, fileBundle, hookVars, peerVars>>

setBundleNameMapping(bundleName, courseId, io) ==
  LET normalizedName == Trim(ToLowerCase(bundleName))
      m == ObjSet(bundleNameToIdMap, normalizedName, courseId)
      h == IF ObjHas(bundleNameToIdMap, normalizedName) THEN inserted
           ELSE Append(inserted, normalizedName)
  IN  /\ bundleNameToIdMap' = m
      /\ inserted' = h
      /\ fileBundleName' = saveMapping(fileBundleName, m, io)
      /\ fileInserted' = IF io = IoOk THEN h ELSE fileInserted
      /\ faults' = FaultsAfter(io)
      /\ last' = [Op("set", "bundleName", bundleName, courseId, <<>>, Raises(io)) EXCEPT !.io = io]
      /\ UNCHANGED <<productToCourseMap, bundleToComponentsMap, fileProduct, fileBundle, hookVars, peerVars>>

\* removeBundleNameMapping deleting the name as given, not its normalized form
removeBundleNameMapping_RawKey(bundleName, io) ==
  LET m == ObjDelete(bundleNameToIdMap, bundleName)
      h == Without(inserted, bundleName)
  IN  /\ bundleNameToIdMap' = m
      /\ inserted' = h
      /\ fileBundleName' = saveMapping(fileBundleName, m, io)
      /\ fileInserted' = IF io = IoOk THEN h ELSE fileInserted
      /\ faults' = FaultsAfter(io)
      /\ last' = [Op("remove", "bundleName", bundleName, <<>>, <<>>, Raises(io)) EXCEPT !.io = io]
      /\ UNCHANGED <<productToCourseMap, bundleToComponentsMap, fileProduct, fileBundle, hookVars, peerVars>>

removeBundleNameMapping(bundleName, io) ==
  LET normalizedName == Trim(ToLowerCase(bundleName))
      m == ObjDelete(bundleNameToIdMap, normalizedName)
      h == Without(inserted, normalizedName)
  IN  /\ bundleNameToIdMap' = m
      /\ inserted' = h
      /\ fileBundleName' = saveMapping(fileBundleName, m, io)
      /\ fileInserted' = IF io = IoOk THEN h ELSE fileInserted
      /\ faults' = FaultsAfter(io)
      /\ last' = [Op("remove", "bundleName", bundleName, <<>>, <<>>, Raises(io)) EXCEPT !.io = io]
      /\ UNCHANGED <<productToCourseMap, bundleToComponentsMap, fileProduct, fileBundle, hookVars, peerVars>>

getAllBundleNameMappings(io) ==
  /\ bundleNameToIdMap' = IF Raises(io) THEN bundleNameToIdMap
                          ELSE loadMapping(fileBundleName, io)
  /\ inserted' = IF Raises(io) THEN inserted
                 ELSE IF fileBundleName.exists /\ io = IoOk THEN fileInserted ELSE <<>>
  /\ faults' = FaultsAfter(io)
  /\ last' = [Op("list", "bundleName", <<>>, <<>>, bundleNameToIdMap', Raises(io)) EXCEPT !.io = io]
  /\ UNCHANGED <<productToCourseMap, bundleToComponentsMap, fileProduct, fileBundle,
                 fileBundleName, fileInserted, hookVars, peerVars>>

\* the reads: they change no store

\* a call of the resolver, as the webhook handlers make it
Resolve(productId, productName) ==
  /\ last' = Op("resolve", "product", productId, productName,
                getCourseIdForProduct(productId, productName), FALSE)
  /\ UNCHANGED <<productToCourseMap, bundleToComponentsMap, bundleNameToIdMap,
                 fileProduct, fileBundle, fileBundleName, faults, inserted, fileInserted,
                 hookVars, peerVars>>

\* get of the product store: getCourseIdForProduct with its default title ''
GetCourse(productId) ==
  /\ last' = Read("get", "product", productId, <<>>,
                  getCourseIdForProduct(productId, TitleEmpty))
  /\ UNCHANGED <<productToCourseMap, bundleToComponentsMap, bundleNameToIdMap,
                 fileProduct, fileBundle, fileBundleName, faults, inserted, fileInserted,
                 hookVars, peerVars>>

\* get of the bundle-name store
FindBundle(productName) ==
  /\ last' = Read("find", "bundleName", productName, <<>>,
                  findBundleCourseIdByName(productName))
  /\ UNCHANGED <<productToCourseMap, bundleToComponentsMap, bundleNameToIdMap,
                 fileProduct, fileBundle, fileBundleName, faults, inserted, fileInserted,
                 hookVars, peerVars>>

GetComponents(bundleProductId) ==
  /\ last' = Read("components", "bundle", bundleProductId, <<>>,
                  getBundleComponents(bundleProductId))
  /\ UNCHANGED <<productToCourseMap, bundleToComponentsMap, bundleNameToIdMap,
                 fileProduct, fileBundle, fileBundleName, faults, inserted, fileInserted,
                 hookVars, peerVars>>

-----------------------------------------------------------------------------
(* A second process running the same module on the same files (the hosted  *)
(* deployment runs several instances).  It loaded its objects when it      *)
(* started and keeps them in its own memory.                               *)

Peer(product, bundle, bundleName, ins) ==
  [product |-> product, bundle |-> bundle, bundleName |-> bundleName, inserted |-> ins]

\* the other process has started on the same fresh data directory
NoPeer == Peer(EmptyObj, EmptyObj, EmptyObj, <<>>)

\* setProductCourseMapping in the other process
PeerSetProductCourseMapping(productId, courseId) ==
  LET m == ObjSet(peer.product, productId, courseId)
  IN  /\ peer' = [peer EXCEPT !.product = m]
      /\ fileProduct' = saveMapping(fileProduct, m, IoOk)
      /\ UNCHANGED <<productToCourseMap, bundleToComponentsMap, bundleNameToIdMap,
                     fileBundle, fileBundleName, faults, inserted, fileInserted,
                     last, focus, hookVars>>

\* setBundleComponents in the other process
PeerSetBundleComponents(bundleProductId, componentProductIds) ==
  LET m == ObjSet(peer.bundle, bundleProductId, componentProductIds)
  IN  /\ peer' = [peer EXCEPT !.bundle = m]
      /\ fileBundle' = saveMapping(fileBundle, m, IoOk)
      /\ UNCHANGED <<productToCourseMap, bundleToComponentsMap, bundleNameToIdMap,
                     fileProduct, fileBundleName, faults, inserted, fileInserted,
                     last, focus, hookVars>>

\* setBundleNameMapping in the other process
PeerSetBundleNameMapping(bundleName, courseId) ==
  LET normalizedName == Trim(ToLowerCase(bundleName))
      m == ObjSet(peer.bundleName, normalizedName, courseId)
      h == IF ObjHas(peer.bundleName, normalizedName) THEN peer.inserted
           ELSE Append(peer.inserted, normalizedName)
  IN  /\ peer' = [peer EXCEPT !.bundleName = m, !.inserted = h]
      /\ fileBundleName' = saveMapping(fileBundleName, m, IoOk)
      /\ fileInserted' = h
      /\ UNCHANGED <<productToCourseMap, bundleToComponentsMap, bundleNameToIdMap,
                     fileProduct, fileBundle, faults, inserted,
                     last, focus, hookVars>>

-----------------------------------------------------------------------------
(* The webhook request in flight (api/webhooks/routes.js) and what it has  *)
(* done so far.  One request is handled at a time.                         *)

\* req.body.order / response.body.order: the fields the handlers read
Order(email, tags, financial_status, line_items) ==
  [email |-> email, tags |-> tags, financial_status |-> financial_status,
   line_items |-> line_items]

\* order.tags: a comma-separated string (Shopify), an array, or missing
TagsString(s) == [type |-> "string", v |-> s]
TagsArray(a) == [type |-> "array", v |-> a]
TagsMissing == [type |-> "undefined", v |-> <<>>]

NoEmail == "undefined"
NoOrder == Order(NoEmail, TagsMissing, "undefined", <<>>)

\* res.status(...).json(...): status, body.success, body.message
Response(status, success, message) ==
  [status |-> status, success |-> success, message |-> message]

NoResponse == Response(0, FALSE, "none")

\* the outcome of the previous direct call of the service
Outcome(op, email, course, result, mutated, failed) ==
  [op |-> op, email |-> email, course |-> course, result |-> result,
   mutated |-> mutated, failed |-> failed]

NoOutcome == Outcome("none", NoEmail, Null, "none", FALSE, FALSE)

Idle ==
  [pc |-> "idle",          \* where the handler is
   kind |-> "none",        \* the route
   order |-> NoOrder,      \* the order, once the handler has it
   i |-> 0,                \* the line item being processed
   op |-> "none",          \* the service method running: enroll or unenroll
   course |-> Null,        \* its courseId argument
   lwCourse |-> Null,      \* the course id it puts in the LearnWorlds URL
   back |-> "none",        \* who called findUserByEmail: the method or createUserIfNotExists
   log |-> <<>>,           \* the calls made so far, in order
   result |-> "none",      \* what the last service call returned
   resp |-> NoResponse,    \* the response sent
   hasOrder |-> FALSE,     \* whether the handler has the order
   order_id |-> TRUE,      \* whether req.body.order_id is there
   hmac |-> "none",        \* the HMAC header of the request
   prev |-> NoOutcome]     \* the previous direct call of the service

NoWebhook ==
  /\ service = "idOnly"
  /\ router = "fetch"
  /\ lwUsers = {}
  /\ lwEnrolled = {}
  /\ req = Idle

-----------------------------------------------------------------------------
(* The mapping store on its own: one process, a fresh data directory *)

InitFiles ==
  /\ fileProduct = NoFile
  /\ fileBundle = NoFile
  /\ fileBundleName = NoFile
  /\ productToCourseMap = loadMapping(fileProduct, IoOk)
  /\ bundleToComponentsMap = loadMapping(fileBundle, IoOk)
  /\ bundleNameToIdMap = loadMapping(fileBundleName, IoOk)
  /\ faults = 0
  /\ inserted = <<>>
  /\ fileInserted = <<>>
  /\ last = NoOp
  /\ peer = NoPeer

InitStore ==
  /\ InitFiles
  /\ focus = "all"

ProductStoreStep(Ps, Cs, f) ==
  \/ \E p \in Ps, c \in Cs, io \in IoChoices(f) : setProductCourseMapping(p, c, io)
  \/ \E p \in Ps, io \in IoChoices(f) : removeProductCourseMapping(p, io)
  \/ \E io \in IoLoadChoices(f) : getAllMappings(io)

BundleStoreStep(Bs, Ls, f) ==
  \/ \E b \in Bs, l \in Ls, io \in IoChoices(f) : setBundleComponents(b, l, io)
  \/ \E b \in Bs, io \in IoChoices(f) : removeBundleComponents(b, io)
  \/ \E io \in IoLoadChoices(f) : getAllBundleMappings(io)

BundleNameStoreStep(Ns, Cs, f) ==
  \/ \E n \in Ns, c \in Cs, io \in IoChoices(f) : setBundleNameMapping(n, c, io)
  \/ \E n \in Ns, io \in IoChoices(f) : removeBundleNameMapping(n, io)
  \/ \E io \in IoLoadChoices(f) : getAllBundleNameMappings(io)

\* a fresh data directory and no webhook in flight
InitIdle == InitStore /\ NoWebhook

\* The resolver over the product and bundle-name stores, on a file system
\* that does not fail (the resolver reads the in-memory objects only).
NextResolve ==
  \/ ProductStoreStep(Products, Courses, 0)
  \/ BundleNameStoreStep(BundleNames, Courses, 0)
  \/ \E p \in Products, t \in Titles : Resolve(p, t)

SpecResolve == InitIdle /\ [][NextResolve]_vars

\* The three stores with their get, set, remove and list, on a file system
\* that does not fail.
StoreProducts == {P111}
StoreNames == {NameBundle2, Name2}

NextStore ==
  \/ ProductStoreStep(StoreProducts, Courses, 0)
  \/ BundleStoreStep(BundleIds, ComponentLists, 0)
  \/ BundleNameStoreStep(StoreNames, Courses, 0)
  \/ \E p \in StoreProducts : GetCourse(p)
  \/ \E n \in StoreNames : FindBundle(n)
  \/ \E b \in BundleIds : GetComponents(b)

SpecStore == InitIdle /\ [][NextStore]_vars

\* The bundle-name store under names that differ only in case and in the
\* white space around them (" BUNDLE 2 " and "Bundle 2"), and another name.
VariantNames == {NameBundle2, TitleBundle2, Name2}

NextNames ==
  \/ BundleNameStoreStep(VariantNames, Courses, 0)
  \/ \E n \in VariantNames : FindBundle(n)

SpecNames == InitIdle /\ [][NextNames]_vars

-----------------------------------------------------------------------------
(* The stores with a second process, and the stores on a file system that  *)
(* fails.  The three stores share no variable and no file, so a behaviour  *)
(* works on one of them, chosen at the start.                              *)

StoreIds == {"product", "bundle", "bundleName"}

InitFocus ==
  /\ InitFiles
  /\ focus \in StoreIds
  /\ NoWebhook

\* set, remove, list and get of the store in focus, the file system failing
\* at most f times
FocusStep(f) ==
  \/ focus = "product" /\ ProductStoreStep(Products, Courses, f)
  \/ focus = "product" /\ \E p \in Products : GetCourse(p)
  \/ focus = "bundle" /\ BundleStoreStep(BundleIds, ComponentLists, f)
  \/ focus = "bundle" /\ \E b \in BundleIds : GetComponents(b)
  \/ focus = "bundleName" /\ BundleNameStoreStep(StoreNames, Courses, f)
  \/ focus = "bundleName" /\ \E n \in StoreNames : FindBundle(n)

PeerStep ==
  \/ focus = "product" /\ \E p \in Products, c \in Courses : PeerSetProductCourseMapping(p, c)
  \/ focus = "bundle" /\ \E b \in BundleIds, l \in ComponentLists : PeerSetBundleComponents(b, l)
  \/ focus = "bundleName" /\ \E n \in StoreNames, c \in Courses : PeerSetBundleNameMapping(n, c)

NextShared ==
  \/ FocusStep(0)
  \/ PeerStep

SpecShared == InitFocus /\ [][NextShared]_vars

MaxFaults == 2

NextFaults == FocusStep(MaxFaults)

SpecFaults == InitFocus /\ [][NextFaults]_vars

-----------------------------------------------------------------------------
(* Claims about the resolver (SpecResolve) *)

IsResolve == last.op = "resolve"
HasDirect == ObjHas(productToCourseMap, last.key)
TitleHasBundle == Includes(ToLowerCase(last.arg), StrBundle)
NormalizedTitle == Trim(ToLowerCase(last.arg))
HasExact == ObjHas(bundleNameToIdMap, NormalizedTitle)

\* the keys of the bundle-name store that are substrings of the normalized title
SubstringKeys ==
  {bundleNameToIdMap[i].key : i \in PartialMatches(bundleNameToIdMap, NormalizedTitle)}

\* the first element of the sequence order that is in the set S
FirstIn(order, S) ==
  order[CHOOSE i \in 1..Len(order) :
          order[i] \in S /\ \A j \in 1..(i - 1) : order[j] \notin S]

\* C1: a product with a direct mapping p -> c resolves to c, whatever the
\* title and whatever the bundle-name store holds.
C1_DirectMappingWins ==
  (IsResolve /\ HasDirect) => last.out = ObjGet(productToCourseMap, last.key)

\* C1 witness: a directly mapped product resolved with a bundle title whose
\* exact bundle-name entry names another course.
C1_Witness ==
  /\ IsResolve /\ HasDirect /\ TitleHasBundle /\ HasExact
  /\ ObjGet(bundleNameToIdMap, NormalizedTitle) # ObjGet(productToCourseMap, last.key)
  /\ last.out = ObjGet(productToCourseMap, last.key)

\* C2: a product without a direct mapping and with a title that does not
\* contain "bundle" (case-insensitive; the empty title too) resolves to no
\* match, whatever the bundle-name store holds.
C2_NoBundleNoMatch ==
  (IsResolve /\ ~HasDirect /\ ~TitleHasBundle) => last.out = Null

\* C2 witness: "Course 2" resolved for an unmapped product while the
\* bundle-name store holds the key "2", a substring of the title.
C2_Witness ==
  /\ IsResolve /\ ~HasDirect /\ ~TitleHasBundle
  /\ last.arg # <<>>
  /\ SubstringKeys # {}
  /\ last.out = Null

PartialCase ==
  IsResolve /\ ~HasDirect /\ TitleHasBundle /\ ~HasExact /\ SubstringKeys # {}

\* C4 as stated: with no exact match, the course returned is that of the
\* first substring key in the order in which the keys were inserted.
C4_FirstInsertedWins ==
  PartialCase => last.out = ObjGet(bundleNameToIdMap, FirstIn(inserted, SubstringKeys))

\* the array-index keys of a set in ascending numeric order
RECURSIVE IndexKeysAscending(_)
IndexKeysAscending(S) ==
  IF S = {} THEN <<>>
  ELSE LET m == CHOOSE k \in S : \A x \in S : NumVal(k) <= NumVal(x)
       IN  <<m>> \o IndexKeysAscending(S \ {m})

\* Object.entries order of keys created in the order hist: the array indices
\* ascending, then the other keys in creation order
EnumerationOrder(hist) ==
  IndexKeysAscending({hist[i] : i \in {j \in 1..Len(hist) : IsArrayIndex(hist[j])}})
    \o SelectSeq(hist, LAMBDA k : ~IsArrayIndex(k))

\* C4 amended: with no exact match, the course returned is that of the first
\* substring key in the enumeration order of the store object: array-index
\* keys in ascending numeric order, then the other keys in insertion order.
C4_FirstEnumeratedWins ==
  PartialCase =>
    last.out = ObjGet(bundleNameToIdMap, FirstIn(EnumerationOrder(inserted), SubstringKeys))

\* C4 witness: three keys are substrings of the title; the one inserted last
\* is an array index, enumerates first and decides the course.
C4_Witness ==
  /\ PartialCase
  /\ Cardinality(SubstringKeys) = 3
  /\ IsArrayIndex(inserted[Len(inserted)])
  /\ inserted[Len(inserted)] \in SubstringKeys
  /\ last.out = ObjGet(bundleNameToIdMap, inserted[Len(inserted)])
  /\ last.out # ObjGet(bundleNameToIdMap, FirstIn(inserted, SubstringKeys))

-----------------------------------------------------------------------------
(* Claims about the stores (SpecStore) *)

\* a get that follows a set or remove of the same store with the same key
IsGet == last.op \in {"get", "find", "components"}
GetAfter(op) ==
  /\ IsGet
  /\ last.after.op = op
  /\ last.after.store = last.store
  /\ last.after.key = last.key

\* what get returns for a key the store does not hold
Absent == IF last.store = "bundle" THEN <<>> ELSE Null

OtherSubstringKeys ==
  LET n == Trim(ToLowerCase(last.key))
  IN  {bundleNameToIdMap[i].key : i \in PartialMatches(bundleNameToIdMap, n)} \ {n}

-----------------------------------------------------------------------------
(* Claims about the stores and their persisted images (SpecShared,         *)
(* SpecFaults)                                                             *)

\* the persisted image of a store: what a load of its file gives
Image(file) == loadMapping(file, IoOk)

MemoryOf(store) ==
  CASE store = "product" -> productToCourseMap
    [] store = "bundle" -> bundleToComponentsMap
    [] OTHER -> bundleNameToIdMap

ImageOf(store) ==
  CASE store = "product" -> Image(fileProduct)
    [] store = "bundle" -> Image(fileBundle)
    [] OTHER -> Image(fileBundleName)

Pairs(o) == {<<o[i].key, o[i].val>> : i \in DOMAIN o}

\* the key under which the store files the key of the last operation
StoredKey == IF last.store = "bundleName" THEN Trim(ToLowerCase(last.key)) ELSE last.key

\* what the last read would return if it were served from the persisted images
ReadOnImage ==
  CASE last.op = "get" ->
         getCourseIdForProductIn(Image(fileProduct), Image(fileBundleName), last.key, TitleEmpty)
    [] last.op = "find" -> findBundleCourseIdByNameIn(Image(fileBundleName), last.key)
    [] OTHER -> IF ObjHas(Image(fileBundle), last.key)
                THEN ObjGet(Image(fileBundle), last.key) ELSE <<>>

\* C11: every get of a store (and so every resolve) returns what the latest
\* persisted image holds, also after another process has written the image
\* and with no list() in between.
C11_ReadsReflectImage == IsGet => last.out = ReadOnImage

\* C12 as stated: list() of each store returns exactly the key/value pairs of
\* the store's persisted image at the time of the call.
C12_ListIsImage ==
  (last.op = "list" /\ ~last.raised) => Pairs(last.out) = Pairs(ImageOf(last.store))

\* C12, amended: list() returns exactly the key/value pairs of the persisted
\* image, not the in-memory copy, when the image is read without failure;
\* when reading it fails, list() returns the empty mapping.
C12_ListIsImageWhenRead ==
  /\ (last.op = "list" /\ last.io = IoOk) => Pairs(last.out) = Pairs(ImageOf(last.store))
  /\ (last.op = "list" /\ last.io = IoReadFail) => last.out = EmptyObj

\* a list that returned a non-empty image after a write of this process failed
C12_Witness ==
  /\ last.op = "list"
  /\ last.io = IoOk
  /\ faults > 0
  /\ last.out # EmptyObj
  /\ Pairs(last.out) = Pairs(ImageOf(last.store))

\* C13: when a set or remove returns and its write did not fail, the
\* persisted image equals the in-memory store of the caller, the mutation
\* included.
C13_WriteThrough ==
  (last.op \in {"set", "remove"} /\ last.io = IoOk)
  => /\ Pairs(ImageOf(last.store)) = Pairs(MemoryOf(last.store))
     /\ last.op = "set" =>
          /\ ObjHas(MemoryOf(last.store), StoredKey)
          /\ ObjGet(MemoryOf(last.store), StoredKey) = last.arg
     /\ last.op = "remove" => ~ObjHas(MemoryOf(last.store), StoredKey)

\* a set that reached the file after an earlier failure, the store holding two keys
C13_Witness ==
  /\ last.op = "set"
  /\ last.io = IoOk
  /\ faults > 0
  /\ Len(MemoryOf(last.store)) = 2
  /\ Pairs(ImageOf(last.store)) = Pairs(MemoryOf(last.store))

\* the keys of the image before the step, other than k, are in the image
\* after the step with the same value
OtherKeysKept(before, after, k) ==
  \A i \in DOMAIN before :
    before[i].key # k =>
      /\ ObjHas(after, before[i].key)
      /\ ObjGet(after, before[i].key) = before[i].val

\* C14: set(k, v) changes no other key of the persisted image, also when the
\* image was last written by another process.
C14_SetKeepsOtherKeys ==
  [][/\ \A p \in Products, c \in Courses :
          setProductCourseMapping(p, c, IoOk)
          => OtherKeysKept(Image(fileProduct), Image(fileProduct'), p)
     /\ \A b \in BundleIds, l \in ComponentLists :
          setBundleComponents(b, l, IoOk)
          => OtherKeysKept(Image(fileBundle), Image(fileBundle'), b)
     /\ \A n \in StoreNames, c \in Courses :
          setBundleNameMapping(n, c, IoOk)
          => OtherKeysKept(Image(fileBundleName), Image(fileBundleName'),
                           Trim(ToLowerCase(n)))]_vars

\* C15: remove(k) of a key the store does not hold leaves every key/value
\* pair unchanged, in memory and in the persisted image.
C15_RemoveAbsentIsNoOp ==
  [][/\ \A p \in Products :
          (removeProductCourseMapping(p, IoOk) /\ ~ObjHas(productToCourseMap, p))
          => /\ Pairs(productToCourseMap') = Pairs(productToCourseMap)
             /\ Pairs(Image(fileProduct')) = Pairs(Image(fileProduct))
     /\ \A b \in BundleIds :
          (removeBundleComponents(b, IoOk) /\ ~ObjHas(bundleToComponentsMap, b))
          => /\ Pairs(bundleToComponentsMap') = Pairs(bundleToComponentsMap)
             /\ Pairs(Image(fileBundle')) = Pairs(Image(fileBundle))
     /\ \A n \in StoreNames :
          (removeBundleNameMapping(n, IoOk)
             /\ ~ObjHas(bundleNameToIdMap, Trim(ToLowerCase(n))))
          => /\ Pairs(bundleNameToIdMap') = Pairs(bundleNameToIdMap)
             /\ Pairs(Image(fileBundleName')) = Pairs(Image(fileBundleName))]_vars

\* C16: when the file system fails during a set or remove (a failed write, or
\* a failure to create the data directory), the call does not raise and the
\* mutation is applied in memory.
C16_FailureDoesNotRaise ==
  (last.op \in {"set", "remove"} /\ last.io # IoOk)
  => /\ ~last.raised
     /\ last.op = "set" =>
          /\ ObjHas(MemoryOf(last.store), StoredKey)
          /\ ObjGet(MemoryOf(last.store), StoredKey) = last.arg
     /\ last.op = "remove" => ~ObjHas(MemoryOf(last.store), StoredKey)

\* C17: if a get(k) that follows set(k, v) in the same process returns v, the
\* persisted image maps k to v.
C17_GetVerifiesDurability ==
  (/\ last.op = "get"
   /\ last.after.op = "set"
   /\ last.after.store = "product"
   /\ last.after.key = last.key
   /\ last.out = last.after.arg)
  => /\ ObjHas(Image(fileProduct), last.key)
     /\ ObjGet(Image(fileProduct), last.key) = last.out

-----------------------------------------------------------------------------
(* Part 2: the LearnWorlds service (services/learnWorldsService.js) and    *)
(* the webhook routes (api/webhooks/routes.js).                            *)
(*                                                                         *)
(* The repository holds three versions of the service and three of the    *)
(* routes file; which ones the process has loaded is chosen at start.     *)
(*   service "idOnly"     src/services/learnWorldsService.js               *)
(*   service "verbose"    the version with testConnection and two lookups  *)
(*   service "titleAware" the version that takes a productName             *)
(*   router  "fetch"      fetches the order from the Shopify REST API      *)
(*   router  "payload"    reads the order from the webhook body            *)
(*   router  "product"    POST /product-subscription-cancelled             *)
(* Every HTTP call is one step; its answer is chosen by the environment.   *)
(* Emails are opaque: how LearnWorlds matches ?email= is not in the code.  *)

Services == {"idOnly", "verbose", "titleAware"}
Routers == {"fetch", "payload", "product"}
OrderKinds == {"cancelled", "create", "paid", "refund"}

EmailA == "a@x.com"
Emails == {EmailA}
NoCustomer == "no customer"
Customers == Emails \cup {NoEmail, NoCustomer}

\* the literals of the handlers
StrSubscription == <<"s", "u", "b", "s", "c", "r", "i", "p", "t", "i", "o", "n">>
MsgNotSubscription == "Not a subscription order"
MsgMissingShopDomain == "Missing shop domain"
MsgMissingOrderId == "Missing order_id"
MsgIncomplete == "Incomplete order details"
MsgCouldNotRetrieve == "Could not retrieve order details"
MsgMissingInOrder == "Missing required fields in order"
MsgInsufficient == "Insufficient order details"
MsgNotPaid == "Order not paid yet"
MsgFetchError == "Error fetching order details"
ErrMissingFields == "Missing required fields"
ErrMissingOrderId == "Missing order_id field"
ErrNoCourse == "No matching course found for this product"
ErrInternal == "Internal server error"
ErrUnauthorized == "Unauthorized"
ErrVerification == "Internal Server Error"

\* order.tags values
TagGiftCard == <<"g", "i", "f", "t", "-", "c", "a", "r", "d">>
TagVip == <<"V", "I", "P">>
TagSubscription == <<"S", "u", "b", "s", "c", "r", "i", "p", "t", "i", "o", "n">>
TagsVipSubscription == <<"V", "I", "P", ",", " ", "S", "u", "b", "s", "c", "r", "i", "p", "t", "i", "o", "n">>
TagChoices ==
  {TagsMissing, TagsString(TagGiftCard), TagsString(TagsVipSubscription),
   TagsArray(<<TagGiftCard>>), TagsArray(<<TagVip, TagSubscription>>)}

\* the Shopify REST API answers tags as one comma-separated string
TagChoicesOf(r) ==
  IF r = "fetch" THEN {t \in TagChoices : t.type # "array"} ELSE TagChoices

SubscriptionTags == {TagsString(TagsVipSubscription), TagsArray(<<TagVip, TagSubscription>>)}

FinancialOf(kind) ==
  CASE kind = "create" -> {"paid", "authorized", "pending"}
    [] kind = "paid" -> {"paid", "pending"}
    [] OTHER -> {"undefined"}

\* line items: product_id and title
Item(product_id, title) == [product_id |-> product_id, title |-> title]
ItemMapped == Item(P111, TitleCourse2)
ItemUnmapped == Item(P222, TitleCourse2)
ItemBundle == Item(P222, TitleSummerBundlePack)
ItemNoId == Item(Undefined, TitleCourse2)
ItemTypes == {ItemMapped, ItemUnmapped, ItemBundle, ItemNoId}

MaxItems == 2

RECURSIVE ItemLists(_)
ItemLists(n) ==
  IF n = 0 THEN {<<>>}
  ELSE LET S == ItemLists(n - 1)
       IN S \cup {Append(l, it) : l \in {x \in S : Len(x) = n - 1}, it \in ItemTypes}

\* The orders an event of this kind may carry.  An order the handlers turn
\* away before the loop (no customer email, no subscription tag) is the same
\* to them whatever its line items are: such orders carry no item or one.
Orders(kind) ==
  {Order(e, t, f, l) : e \in Emails, t \in SubscriptionTags \cap TagChoicesOf(router),
                       f \in FinancialOf(kind), l \in ItemLists(MaxItems)}
  \cup
  {Order(e, t, f, l) : e \in Customers, t \in TagChoicesOf(router),
                       f \in FinancialOf(kind), l \in {<<>>, <<ItemMapped>>}}

\* String.prototype.split(',')
RECURSIVE SplitFrom(_, _, _)
SplitFrom(s, i, cur) ==
  IF i > Len(s) THEN <<cur>>
  ELSE IF s[i] = "," THEN <<cur>> \o SplitFrom(s, i + 1, <<>>)
  ELSE SplitFrom(s, i + 1, Append(cur, s[i]))

Split(s) == SplitFrom(s, 1, <<>>)

isSubscription_Always(tags) == TRUE

\* order.tags && order.tags.split(',').some(tag =>
\*   tag.trim().toLowerCase().includes('subscription'))
isSubscription(tags) ==
  /\ tags.type = "string"
  /\ Truthy(tags.v)
  /\ \E k \in DOMAIN Split(tags.v) :
       Includes(ToLowerCase(Trim(Split(tags.v)[k])), StrSubscription)

\* tags && Array.isArray(tags) && tags.some(tag =>
\*   tag.toLowerCase().includes('subscription'))
isSubscriptionArray(tags) ==
  /\ tags.type = "array"
  /\ \E k \in DOMAIN tags.v : Includes(ToLowerCase(tags.v[k]), StrSubscription)

-----------------------------------------------------------------------------
(* What a request has done: the log of its calls *)

Call(call, item, course, res) ==
  [call |-> call, item |-> item, course |-> course, res |-> res]

Logged(r, call, course, res) ==
  [r EXCEPT !.log = Append(@, Call(call, r.i, course, res))]

Respond(r, status, success, message) ==
  [r EXCEPT !.pc = "done", !.resp = Response(status, success, message)]

\* a service method is called: it starts with findUserByEmail
StartService(r, op, course) ==
  [Logged(r, op, course, "called") EXCEPT
     !.pc = "find", !.op = op, !.course = course, !.lwCourse = Null,
     !.back = "method", !.result = "none"]

OpOf(kind) == IF kind \in {"create", "paid"} THEN "enroll" ELSE "unenroll"

\* a loop that takes the line items from the last to the first
RECURSIVE ProcessItems_LastFirst(_, _)
ProcessItems_LastFirst(r, i) ==
  IF i > Len(r.order.line_items)
  THEN Respond([r EXCEPT !.i = i], 200, TRUE, "none")
  ELSE LET j == Len(r.order.line_items) + 1 - i
           item == r.order.line_items[j]
           r1 == [r EXCEPT !.i = j]
           courseId == getCourseIdForProduct(item.product_id, TitleEmpty)
           r2 == Logged(r1, "resolve", courseId, "returned")
       IN IF ~Truthy(item.product_id) THEN ProcessItems_LastFirst(r1, i + 1)
          ELSE IF ~Truthy(courseId) THEN ProcessItems_LastFirst(r2, i + 1)
          ELSE StartService(r2, OpOf(r.kind), courseId)

\* for (const item of line_items) { ... }: from item i up to the next call of
\* the service, or to the response after the last item
RECURSIVE ProcessItems(_, _)
ProcessItems(r, i) ==
  IF i > Len(r.order.line_items)
  THEN Respond([r EXCEPT !.i = i], 200, TRUE, "none")
  ELSE LET item == r.order.line_items[i]
           r1 == [r EXCEPT !.i = i]
           title == IF router = "fetch" /\ Truthy(item.title) THEN item.title ELSE TitleEmpty
           courseId == getCourseIdForProduct(item.product_id, title)
           r2 == Logged(r1, "resolve", courseId, "returned")
       IN IF ~Truthy(item.product_id) THEN ProcessItems(r1, i + 1)
          ELSE IF ~Truthy(courseId) THEN ProcessItems(r2, i + 1)
          ELSE StartService(r2, OpOf(r.kind), courseId)

\* the service method returns v to its caller, which goes on
Return(r, v) ==
  LET r1 == [Logged(r, "return", r.course, v) EXCEPT !.result = v]
  IN CASE r.kind = "direct" -> [r1 EXCEPT !.pc = "done"]
       [] r.kind = "productCancelled" -> Respond(r1, 200, TRUE, "none")
       [] OTHER -> ProcessItems(r1, r.i + 1)

\* the service method throws: the caller's catch block answers
Throw(r) ==
  LET r1 == [Logged(r, "return", r.course, "throw") EXCEPT !.result = "throw"]
  IN CASE r.kind = "direct" -> [r1 EXCEPT !.pc = "done"]
       [] router = "fetch" -> Respond(r1, 200, TRUE, MsgFetchError)
       [] OTHER -> Respond(r1, 500, FALSE, ErrInternal)

\* the user is known: the enrollment call is next
AfterUser(r) ==
  IF service = "idOnly"
  THEN [r EXCEPT !.pc = "enrollment", !.lwCourse = r.course]
  ELSE LET learnWorldsCourseId == getCourseIdForProduct(r.course, TitleEmpty)
           r1 == Logged(r, "resolveAgain", learnWorldsCourseId, "returned")
       IN IF Truthy(learnWorldsCourseId)
          THEN [r1 EXCEPT !.pc = "enrollment", !.lwCourse = learnWorldsCourseId]
          ELSE Return(r1, "false")

\* findUserByEmail returned null
UserNotFound(r) ==
  IF r.back = "create" THEN [r EXCEPT !.pc = "create"]
  ELSE IF r.op = "enroll" THEN [r EXCEPT !.pc = "find", !.back = "create"]
  ELSE IF service = "verbose" THEN [r EXCEPT !.pc = "test"]
  ELSE Return(r, "false")

-----------------------------------------------------------------------------
(* learnWorldsService.js, one step per HTTP call *)

\* GET /v2/users?email=
FindUserByEmail ==
  /\ req.pc = "find"
  /\ \E out \in {"ok", "error"} :
       LET found == out = "ok" /\ req.order.email \in lwUsers
           res == IF out = "error" THEN "error" ELSE IF found THEN "found" ELSE "none"
           r == Logged(req, "findUser", Null, res)
       IN req' = IF found THEN AfterUser(r)
                 ELSE IF service = "verbose" THEN [r EXCEPT !.pc = "list"]
                 ELSE IF out = "error" THEN Throw(r)
                 ELSE UserNotFound(r)
  /\ UNCHANGED <<storeVars, service, router, lwUsers, lwEnrolled>>

\* GET /v2/users?limit=100 (Method 2 of the verbose findUserByEmail)
ListUsers ==
  /\ req.pc = "list"
  /\ \E out \in {"ok", "error"} :
       LET found == out = "ok" /\ req.order.email \in lwUsers
           res == IF out = "error" THEN "error" ELSE IF found THEN "found" ELSE "none"
           r == Logged(req, "listUsers", Null, res)
       IN req' = IF found THEN AfterUser(r) ELSE UserNotFound(r)
  /\ UNCHANGED <<storeVars, service, router, lwUsers, lwEnrolled>>

\* GET /v2/users?limit=1; the answer is only logged
testConnection ==
  /\ req.pc = "test"
  /\ req' = Return(Logged(req, "testConnection", Null, "ignored"), "true")
  /\ UNCHANGED <<storeVars, service, router, lwUsers, lwEnrolled>>

\* POST /v2/users, sent a second time when the first answer is an error
createUserIfNotExists_RetryOnce ==
  /\ req.pc = "create"
  /\ \E out \in {"ok", "error"} :
       LET r == Logged(req, "createUser", Null, out)
           first == \A k \in DOMAIN req.log : req.log[k].call # "createUser"
       IN IF out = "ok"
          THEN /\ lwUsers' = lwUsers \cup {req.order.email}
               /\ req' = AfterUser(r)
          ELSE /\ lwUsers' = lwUsers
               /\ req' = IF first THEN r ELSE Throw(r)
  /\ UNCHANGED <<storeVars, service, router, lwEnrolled>>

\* POST /v2/users
createUserIfNotExists ==
  /\ req.pc = "create"
  /\ \E out \in {"ok", "error"} :
       LET r == Logged(req, "createUser", Null, out)
       IN IF out = "ok"
          THEN /\ lwUsers' = lwUsers \cup {req.order.email}
               /\ req' = AfterUser(r)
          ELSE /\ lwUsers' = lwUsers
               /\ req' = Throw(r)
  /\ UNCHANGED <<storeVars, service, router, lwEnrolled>>

\* POST /v2/users/{id}/courses/{courseId}
enrollUserInCourse ==
  /\ req.pc = "enrollment"
  /\ req.op = "enroll"
  /\ \E out \in {"ok", "error"} :
       LET r == Logged(req, "enroll", req.lwCourse, out)
       IN IF out = "ok"
          THEN /\ lwEnrolled' = lwEnrolled \cup {<<req.order.email, req.lwCourse>>}
               /\ req' = Return(r, "true")
          ELSE /\ lwEnrolled' = lwEnrolled
               /\ req' = Throw(r)
  /\ UNCHANGED <<storeVars, service, router, lwUsers>>

\* DELETE /v2/users/{id}/courses/{courseId}
unenrollUserFromCourse ==
  /\ req.pc = "enrollment"
  /\ req.op = "unenroll"
  /\ LET enrolled == <<req.order.email, req.lwCourse>> \in lwEnrolled
     IN \E out \in {IF enrolled THEN "ok" ELSE "404", "error"} :
          LET r == Logged(req, "delete", req.lwCourse, out)
          IN /\ lwEnrolled' = IF out = "ok"
                              THEN lwEnrolled \ {<<req.order.email, req.lwCourse>>}
                              ELSE lwEnrolled
             /\ req' = IF out = "ok" THEN Return(r, "true")
                       ELSE IF out = "404" /\ service = "verbose" THEN Return(r, "true")
                       ELSE Throw(r)
  /\ UNCHANGED <<storeVars, service, router, lwUsers>>

ServiceStep ==
  \/ FindUserByEmail
  \/ ListUsers
  \/ testConnection
  \/ createUserIfNotExists
  \/ enrollUserInCourse
  \/ unenrollUserFromCourse

\* a caller of the module calls enrollUserInCourse or unenrollUserFromCourse
CallService(op, email, courseId) ==
  /\ req.pc = "idle"
  /\ req' = StartService([Idle EXCEPT !.kind = "direct",
                                      !.order = Order(email, TagsMissing, "undefined", <<>>),
                                      !.prev = req.prev],
                         op, courseId)
  /\ UNCHANGED <<storeVars, service, router, lwUsers, lwEnrolled>>

Mutations == {"createUser", "enroll", "delete"}

\* a handler that files the course it found by bundle name under the product
\* id, to spare the next event the search
Finish_CachesCourse ==
  /\ req.pc = "done"
  /\ req' = Idle
  /\ productToCourseMap' =
       IF \E k \in DOMAIN req.log : req.log[k].call = "resolve" /\ req.log[k].course = CourseB
       THEN ObjSet(productToCourseMap, P222, CourseB)
       ELSE productToCourseMap
  /\ UNCHANGED <<bundleToComponentsMap, bundleNameToIdMap, fileProduct, fileBundle,
                 fileBundleName, faults, inserted, fileInserted, last, peerVars,
                 service, router, lwUsers, lwEnrolled>>

\* the call is over; what it did is remembered for the next one
Finish ==
  /\ req.pc = "done"
  /\ req' = IF req.kind = "direct"
            THEN [Idle EXCEPT !.prev =
                    Outcome(req.op, req.order.email, req.course, req.result,
                            \E k \in DOMAIN req.log : req.log[k].call \in Mutations,
                            \E k \in DOMAIN req.log : req.log[k].res = "error")]
            ELSE Idle
  /\ UNCHANGED <<storeVars, service, router, lwUsers, lwEnrolled>>

-----------------------------------------------------------------------------
(* api/webhooks/routes.js *)

VerifyOutcomes == {"noHmac", "notVerified", "error", "verified"}

\* the x-shopify-hmac-sha256 header of a request: absent, or the signature of
\* the body under the shop's secret, or anything else
Hmacs == {"none", "valid", "invalid"}

\* const verified = shopify.webhooks.validate({...}): the call is not awaited.
\* A validate that answers at once gives true or false; a validate that is
\* asynchronous gives a Promise, whatever the signature; or the call throws.
validate(hmac) ==
  IF hmac = "valid" THEN {"true", "promise", "throw"} ELSE {"false", "promise", "throw"}

\* verifyShopifyWebhook: what the middleware does with the request; a Promise
\* is truthy, so that `if (!verified)` lets it pass
verifyShopifyWebhook(hmac) ==
  IF hmac = "none" THEN {"noHmac"}
  ELSE {v \in VerifyOutcomes :
          \E verified \in validate(hmac) :
            v = CASE verified = "throw" -> "error"
                  [] verified = "false" -> "notVerified"
                  [] OTHER -> "verified"}

Verified(kind, hmac, v) ==
  Logged([Idle EXCEPT !.kind = kind, !.hmac = hmac], "verify", Null, v)

Rejected(r, v) ==
  IF v = "error" THEN Respond(r, 500, FALSE, ErrVerification)
  ELSE Respond(r, 401, FALSE, ErrUnauthorized)

\* the fetch variant up to the Shopify REST call
WebhookFetch(kind) ==
  /\ router = "fetch"
  /\ req.pc = "idle"
  /\ \E hmac \in Hmacs : \E v \in verifyShopifyWebhook(hmac), order_id \in BOOLEAN, shopDomain \in BOOLEAN :
       LET r == Verified(kind, hmac, v)
       IN req' = IF v # "verified" THEN Rejected(r, v)
                 ELSE IF kind = "refund" /\ ~order_id
                   THEN Respond(r, 200, TRUE, MsgMissingOrderId)
                 ELSE IF ~shopDomain THEN Respond(r, 200, TRUE, MsgMissingShopDomain)
                 ELSE [r EXCEPT !.pc = "fetch"]
  /\ UNCHANGED <<storeVars, service, router, lwUsers, lwEnrolled>>

\* the checks of the fetch variant between the order and the loop
GateFetch(kind, order) ==
  IF kind = "refund"
  THEN IF order.email \notin Emails \/ order.line_items = <<>> THEN MsgMissingInOrder
       ELSE IF ~isSubscription(order.tags) THEN MsgNotSubscription
       ELSE "pass"
  ELSE IF order.email \notin Emails THEN MsgIncomplete
       ELSE IF ~isSubscription(order.tags) THEN MsgNotSubscription
       ELSE IF kind = "create" /\ order.financial_status \notin {"paid", "authorized"}
         THEN MsgNotPaid
       ELSE "pass"

\* restClient.get answers, and the handler runs on to its first service call
FetchOrder ==
  /\ req.pc = "fetch"
  /\ \/ req' = Respond(Logged(req, "fetchOrder", Null, "error"), 200, TRUE, MsgFetchError)
     \/ req' = Respond(Logged(req, "fetchOrder", Null, "none"), 200, TRUE,
                       IF req.kind = "refund" THEN MsgCouldNotRetrieve ELSE MsgIncomplete)
     \/ \E order \in Orders(req.kind) :
          LET r == [Logged(req, "fetchOrder", Null, "ok") EXCEPT
                      !.order = order, !.hasOrder = TRUE]
              gate == GateFetch(req.kind, order)
          IN req' = IF gate = "pass" THEN ProcessItems(r, 1)
                    ELSE Respond(r, 200, TRUE, gate)
  /\ UNCHANGED <<storeVars, service, router, lwUsers, lwEnrolled>>

\* the checks of the payload variant before the loop
GatePayload(kind, order_id, hasOrder, order) ==
  LET incomplete == order.email \notin Emails \/ order.line_items = <<>>
  IN IF kind = "refund"
     THEN IF ~order_id THEN Response(400, FALSE, ErrMissingOrderId)
          ELSE IF ~hasOrder \/ order.email = NoCustomer
            THEN Response(200, TRUE, MsgInsufficient)
          ELSE IF ~isSubscriptionArray(order.tags)
            THEN Response(200, TRUE, MsgNotSubscription)
          ELSE NoResponse
     ELSE IF ~isSubscriptionArray(order.tags) THEN Response(200, TRUE, MsgNotSubscription)
          ELSE IF kind = "create" /\ order.financial_status \notin {"paid", "authorized"}
            THEN Response(200, TRUE, MsgNotPaid)
          ELSE IF incomplete THEN Response(400, FALSE, ErrMissingFields)
          ELSE NoResponse

\* the payload variant up to its first service call
WebhookPayload(kind) ==
  /\ router = "payload"
  /\ req.pc = "idle"
  /\ \E hmac \in Hmacs : \E v \in verifyShopifyWebhook(hmac), order_id \in BOOLEAN, hasOrder \in BOOLEAN,
        order \in Orders(kind) :
       LET r == [Verified(kind, hmac, v) EXCEPT
                   !.order = IF hasOrder THEN order ELSE NoOrder,
                   !.hasOrder = hasOrder, !.order_id = order_id]
           gate == GatePayload(kind, order_id, hasOrder, order)
       IN /\ kind # "refund" => order_id /\ hasOrder
          /\ req' = IF v # "verified" THEN Rejected(Verified(kind, hmac, v), v)
                    ELSE IF gate # NoResponse
                      THEN Respond(r, gate.status, gate.success, gate.message)
                    ELSE ProcessItems(r, 1)
  /\ UNCHANGED <<storeVars, service, router, lwUsers, lwEnrolled>>

\* POST /product-subscription-cancelled
ProductSubscriptionCancelled ==
  /\ router = "product"
  /\ req.pc = "idle"
  /\ \E hmac \in Hmacs : \E v \in verifyShopifyWebhook(hmac), customer \in Customers, product_id \in Products \cup {Undefined} :
       LET r == [Verified("productCancelled", hmac, v) EXCEPT
                   !.order = Order(customer, TagsMissing, "undefined",
                                   <<Item(product_id, TitleEmpty)>>),
                   !.hasOrder = TRUE, !.i = 1]
           courseId == getCourseIdForProduct(product_id, TitleEmpty)
           r1 == Logged(r, "resolve", courseId, "returned")
       IN req' = IF v # "verified" THEN Rejected(Verified("productCancelled", hmac, v), v)
                 ELSE IF customer = NoCustomer \/ ~Truthy(product_id)
                   THEN Respond(r, 400, FALSE, ErrMissingFields)
                 ELSE IF ~Truthy(courseId) THEN Respond(r1, 404, FALSE, ErrNoCourse)
                 ELSE StartService(r1, "unenroll", courseId)
  /\ UNCHANGED <<storeVars, service, router, lwUsers, lwEnrolled>>

-----------------------------------------------------------------------------
(* api/mappings/routes.js: the administrative writes.  The handlers are     *)
(* synchronous: `last` tells what the handler did, and the response follows *)
(* from it.                                                                 *)

ErrMissingOrInvalid == "Missing or invalid required fields"

\* a text field of req.body: missing, the empty string, or a value
BodyFields(values) == {Undefined, <<>>} \cup values

\* req.body.componentProductIds: missing, a string, or an array
BodyComponents ==
  {TagsMissing, TagsString(P111), TagsArray(<<>>), TagsArray(<<P111>>)}

\* !componentProductIds || !Array.isArray(componentProductIds)
NotAnArray(field) == field.type # "array"

\* return res.status(400).json(...): the handler stops before the store
Reject(store, key, arg) ==
  /\ last' = Op("invalid", store, key, arg, <<>>, FALSE)
  /\ UNCHANGED <<productToCourseMap, bundleToComponentsMap, bundleNameToIdMap,
                 fileProduct, fileBundle, fileBundleName, faults, inserted, fileInserted,
                 hookVars, peerVars>>

\* a handler that passes the body to the store without looking at it
PostMappings_Unchecked(productId, courseId, io) ==
  setProductCourseMapping(productId, courseId, io)

\* router.post('/mappings')
PostMappings(productId, courseId, io) ==
  IF ~Truthy(productId) \/ ~Truthy(courseId)
  THEN Reject("product", productId, courseId)
  ELSE setProductCourseMapping(productId, courseId, io)

\* router.post('/bundles')
PostBundles(bundleProductId, componentProductIds, io) ==
  IF ~Truthy(bundleProductId) \/ NotAnArray(componentProductIds)
  THEN Reject("bundle", bundleProductId, componentProductIds.v)
  ELSE setBundleComponents(bundleProductId, componentProductIds.v, io)

\* router.post('/bundle-names')
PostBundleNames(bundleName, courseId, io) ==
  IF ~Truthy(bundleName) \/ ~Truthy(courseId)
  THEN Reject("bundleName", bundleName, courseId)
  ELSE setBundleNameMapping(bundleName, courseId, io)

\* the response of the handler: 400 before the store is touched, 500 from the
\* catch block when the store raised, 200 otherwise
AdminResponse ==
  CASE last.op = "invalid" ->
         Response(400, FALSE,
                  IF last.store = "bundle" THEN ErrMissingOrInvalid ELSE ErrMissingFields)
    [] last.op = "set" /\ last.raised -> Response(500, FALSE, ErrInternal)
    [] last.op = "set" -> Response(200, TRUE, "none")
    [] OTHER -> NoResponse

\* the writes of one store, the one the behaviour works on
NextAdmin ==
  \/ /\ focus = "product"
     /\ \E productId \in BodyFields(StoreProducts), courseId \in BodyFields(Courses),
           io \in IoChoices(MaxFaults) : PostMappings(productId, courseId, io)
  \/ /\ focus = "bundle"
     /\ \E bundleProductId \in BodyFields(BundleIds), componentProductIds \in BodyComponents,
           io \in IoChoices(MaxFaults) : PostBundles(bundleProductId, componentProductIds, io)
  \/ /\ focus = "bundleName"
     /\ \E bundleName \in BodyFields(StoreNames), courseId \in BodyFields(Courses),
           io \in IoChoices(MaxFaults) : PostBundleNames(bundleName, courseId, io)

SpecAdmin == InitFocus /\ [][NextAdmin]_vars

\* POST /bundle-names alone, a bundle name of spaces only among the names
\* posted
NameBlank == <<" ", " ">>
AdminNames == StoreNames \cup {NameBlank}

NextBundleNames ==
  \E bundleName \in BodyFields(AdminNames), courseId \in BodyFields(Courses) :
    PostBundleNames(bundleName, courseId, IoOk)

SpecBundleNames == InitIdle /\ [][NextBundleNames]_vars

-----------------------------------------------------------------------------
(* Specifications of the service and of the webhooks.  The stores hold the  *)
(* mappings an administrator has set: product 111 -> courseA and bundle     *)
(* name "summer bundle" -> courseB.                                         *)

InitMapped ==
  /\ productToCourseMap = ObjSet(EmptyObj, P111, CourseA)
  /\ bundleToComponentsMap = EmptyObj
  /\ bundleNameToIdMap = ObjSet(EmptyObj, Trim(ToLowerCase(NameSummerBundle)), CourseB)
  /\ fileProduct = FileOf(JsonStringify(productToCourseMap))
  /\ fileBundle = NoFile
  /\ fileBundleName = FileOf(JsonStringify(bundleNameToIdMap))
  /\ faults = 0
  /\ inserted = <<Trim(ToLowerCase(NameSummerBundle))>>
  /\ fileInserted = inserted
  /\ last = NoOp
  /\ peer = Peer(productToCourseMap, EmptyObj, bundleNameToIdMap, inserted)
  /\ focus = "all"

\* LearnWorlds holds any users and enrollments
InitLearnWorlds ==
  /\ lwUsers \in SUBSET Emails
  /\ lwEnrolled \in SUBSET (lwUsers \X Courses)
  /\ req = Idle

\* what a caller may pass as courseId: a course id, or a Shopify product id
ServiceArgs == {CourseA, P111}

InitService ==
  /\ InitMapped
  /\ InitLearnWorlds
  /\ service \in Services
  /\ router = "fetch"

NextService ==
  \/ \E op \in {"enroll", "unenroll"}, e \in Emails, c \in ServiceArgs : CallService(op, e, c)
  \/ ServiceStep
  \/ Finish

SpecService == InitService /\ [][NextService]_vars

InitWebhook ==
  /\ InitMapped
  /\ InitLearnWorlds
  /\ service \in Services
  /\ router \in Routers

NextWebhook ==
  \/ \E kind \in OrderKinds : WebhookFetch(kind)
  \/ FetchOrder
  \/ \E kind \in OrderKinds : WebhookPayload(kind)
  \/ ProductSubscriptionCancelled
  \/ ServiceStep
  \/ Finish

SpecWebhook == InitWebhook /\ [][NextWebhook]_vars

\* The resolver beside the bundle -> components store: the product and the
\* bundle-name stores stay as the administrator set them, the components of
\* bundles are set, removed and listed.
InitBundles == InitMapped /\ NoWebhook

NextBundles ==
  \/ BundleStoreStep(BundleIds \cup {P222}, ComponentLists, 0)
  \/ \E b \in BundleIds \cup {P222} : GetComponents(b)
  \/ \E p \in Products \cup BundleIds, t \in Titles : Resolve(p, t)

SpecBundles == InitBundles /\ [][NextBundles]_vars

\* Two calls of the service in flight.  A call runs from one await to the
\* next; req is the call whose HTTP answer arrives next, and req.prev is the
\* other call, waiting at its await.
DirectCall(op, email, courseId) ==
  StartService([Idle EXCEPT !.kind = "direct",
                            !.order = Order(email, TagsMissing, "undefined", <<>>)],
               op, courseId)

InitConcurrent ==
  /\ InitMapped
  /\ service \in Services
  /\ router = "fetch"
  /\ lwUsers \in SUBSET Emails
  /\ lwEnrolled \in SUBSET (lwUsers \X Courses)
  /\ req \in {[DirectCall(op1, EmailA, c) EXCEPT !.prev = DirectCall(op2, EmailA, c)] :
                op1 \in {"enroll", "unenroll"}, op2 \in {"enroll", "unenroll"},
                c \in ServiceArgs}

\* the answer for the other call arrives first
Interleave ==
  /\ req.prev.pc # "done"
  /\ req' = [req.prev EXCEPT !.prev = [req EXCEPT !.prev = Idle.prev]]
  /\ UNCHANGED <<storeVars, service, router, lwUsers, lwEnrolled>>

NextConcurrent ==
  \/ ServiceStep
  \/ Interleave

SpecConcurrent == InitConcurrent /\ [][NextConcurrent]_vars

-----------------------------------------------------------------------------
(* Claims about the service called directly (SpecService) *)

Done == req.pc = "done"
NoApiError == \A k \in DOMAIN req.log : req.log[k].res # "error"
Issued(calls) == \E k \in DOMAIN req.log : req.log[k].call \in calls

\* C6: unenroll(email, course) called twice in a row while no user with that
\* email exists (and no API call fails): both calls report success, and
\* neither issues a delete-enrollment or a create-user call.
C6_UnenrollTwiceNoUser ==
  (/\ Done
   /\ req.kind = "direct"
   /\ req.op = "unenroll"
   /\ req.prev.op = "unenroll"
   /\ req.prev.email = req.order.email
   /\ req.prev.course = req.course
   /\ req.order.email \notin lwUsers
   /\ ~req.prev.failed
   /\ NoApiError)
  => /\ req.prev.result = "true"
     /\ req.result = "true"
     /\ ~req.prev.mutated
     /\ ~Issued({"delete", "createUser"})

\* C7: when the delete-enrollment call answers 404 (the user exists but is
\* not enrolled in the course), unenroll reports success and raises no error.
C7_NotEnrolledIsSuccess ==
  (/\ Done
   /\ req.kind = "direct"
   /\ req.op = "unenroll"
   /\ \E k \in DOMAIN req.log : req.log[k].call = "delete" /\ req.log[k].res = "404")
  => req.result = "true"

\* C18: when a LearnWorlds call of an enroll or unenroll fails (the search
\* for the user included), the operation ends in an error: it does not
\* report success and issues no create-user, enroll or unenroll call after
\* the failure.
C18_FailureIsSurfaced ==
  (Done /\ req.kind = "direct")
  => \A k \in DOMAIN req.log :
       req.log[k].res = "error"
       => /\ req.result = "throw"
          /\ \A j \in DOMAIN req.log : j > k => req.log[j].call \notin Mutations

-----------------------------------------------------------------------------
(* Claims about the webhooks (SpecWebhook) *)

WasVerified ==
  /\ req.log # <<>>
  /\ req.log[1].call = "verify"
  /\ req.log[1].res = "verified"

LineItems == req.order.line_items

\* the log entries of line item i that are calls of one of the given names
CallsOf(i, calls) ==
  {k \in DOMAIN req.log : req.log[k].item = i /\ req.log[k].call \in calls}

\* C8: a paid subscription order with a line item whose product is mapped
\* directly to course c, the customer's email not being found on LearnWorlds
\* (and no API call failing): the user is created, then an enroll call is
\* issued for course c, and the event returns success.
C8_CreateThenEnroll ==
  (/\ Done
   /\ WasVerified
   /\ req.kind \in {"create", "paid"}
   /\ req.order.financial_status = "paid"
   /\ NoApiError)
  => \A i \in DOMAIN LineItems :
       (/\ ObjHas(productToCourseMap, LineItems[i].product_id)
        /\ \E k \in CallsOf(i, {"findUser"}) : req.log[k].res = "none")
       => /\ \E k1 \in CallsOf(i, {"createUser"}), k2 \in CallsOf(i, {"enroll"}) :
               /\ k1 < k2
               /\ req.log[k1].res = "ok"
               /\ req.log[k2].res = "ok"
               /\ req.log[k2].course = ObjGet(productToCourseMap, LineItems[i].product_id)
          /\ req.resp.status = 200
          /\ req.resp.success

\* the tags of an order, one by one
TagList(tags) ==
  CASE tags.type = "string" -> Split(tags.v)
    [] tags.type = "array" -> tags.v
    [] OTHER -> <<>>

HasSubscriptionTag(tags) ==
  \E k \in DOMAIN TagList(tags) : Includes(ToLowerCase(TagList(tags)[k]), StrSubscription)

\* a verified order event handled to its end, the order having no subscription tag
NonSubscriptionEvent ==
  /\ Done
  /\ WasVerified
  /\ req.kind \in OrderKinds
  /\ req.hasOrder
  /\ ~HasSubscriptionTag(req.order.tags)

ResolverAndPlatformCalls ==
  {"resolve", "resolveAgain", "enroll", "unenroll", "findUser", "listUsers",
   "testConnection", "createUser", "delete"}

HasRequiredDetails ==
  /\ req.order.email \in Emails
  /\ req.kind = "refund" => req.order_id /\ LineItems # <<>>

C10_UnresolvedItemSkipped ==
  (/\ Done
   /\ WasVerified
   /\ req.kind \in {"cancelled", "productCancelled"}
   /\ NoApiError
   /\ \A k \in DOMAIN req.log : req.log[k].res # "throw")
  => \A i \in DOMAIN LineItems :
       (\E k \in CallsOf(i, {"resolve"}) : req.log[k].course = Null)
       => /\ CallsOf(i, {"unenroll"}) = {}
          /\ \A j \in DOMAIN LineItems :
               j > i /\ Truthy(LineItems[j].product_id) => CallsOf(j, {"resolve"}) # {}
          /\ req.resp.status = 200
          /\ req.resp.success

\* the service method called for line item i threw
ItemFailed(i) == \E k \in CallsOf(i, {"return"}) : req.log[k].res = "throw"

\* line item j was resolved and, when it has a course, handed to the service
Reconciled(j) ==
  /\ CallsOf(j, {"resolve"}) # {}
  /\ \A k \in CallsOf(j, {"resolve"}) :
       Truthy(req.log[k].course)
       => \E k2 \in CallsOf(j, {"enroll", "unenroll"}) :
            k2 > k /\ req.log[k2].res = "called"

\* C19: within one event, when the enroll or unenroll of a line item fails,
\* every later line item is still resolved and reconciled.
C19_LaterItemsStillProcessed ==
  (Done /\ WasVerified /\ req.kind \in OrderKinds)
  => \A i \in DOMAIN LineItems :
       ItemFailed(i)
       => \A j \in DOMAIN LineItems :
            j > i /\ Truthy(LineItems[j].product_id) => Reconciled(j)

\* a create-user, enrollment or unenrollment request was sent to LearnWorlds
PlatformWrite ==
  \E k \in DOMAIN req.log :
    \/ req.log[k].call \in {"createUser", "delete"}
    \/ req.log[k].call = "enroll" /\ req.log[k].res # "called"

\* C20: when fetching the order fails, the event is answered with success
\* and the message "Error fetching order details" and does no enrollment
\* work; and whenever an event is answered with that message, no
\* create-user, enroll or unenroll call was issued.
C20_FetchErrorMeansNoWork ==
  /\ (Done /\ \E k \in DOMAIN req.log :
                req.log[k].call = "fetchOrder" /\ req.log[k].res = "error")
     => /\ req.resp = Response(200, TRUE, MsgFetchError)
        /\ ~Issued(ResolverAndPlatformCalls)
  /\ (Done /\ req.resp.message = MsgFetchError) => ~PlatformWrite

\* C21: every verified webhook event, on every path (missing fields, no
\* mapping, a failing API), is answered with a success-shaped response,
\* never with a 4xx or 5xx status.
C21_NeverSurfacesFailure ==
  (Done /\ WasVerified) => (req.resp.status = 200 /\ req.resp.success)

\* C23: an order-created or order-paid event leads to an enroll call only
\* when the financial status of the order is "paid" or "authorized".
C23_PaymentStatusGatesEnroll ==
  (WasVerified /\ req.kind \in {"create", "paid"} /\ Issued({"enroll"}))
  => req.order.financial_status \in {"paid", "authorized"}

\* C24: a webhook request reaches its handler only if it carries the HMAC
\* header and the signature validated positively; a request whose
\* validation fails is answered 401 and triggers no resolver, enroll or
\* unenroll call.
C24_OnlyValidReachHandler ==
  /\ WasVerified => req.hmac = "valid"
  /\ (Done /\ req.kind # "direct" /\ req.hmac # "valid")
     => /\ req.resp.status = 401
        /\ ~Issued(ResolverAndPlatformCalls)

-----------------------------------------------------------------------------
(* Claims about the administrative writes (SpecAdmin) *)

StoreContents ==
  <<productToCourseMap, bundleToComponentsMap, bundleNameToIdMap,
    fileProduct, fileBundle, fileBundleName>>

\* C22: an administrative mapping write with a missing required field is
\* answered with a client error (400), not the server error (500), and
\* changes no store, in memory or persisted.
C22_MissingFieldNoSideEffect ==
  [][/\ \A productId \in BodyFields(StoreProducts), courseId \in BodyFields(Courses),
          io \in IoChoices(MaxFaults) :
          (PostMappings(productId, courseId, io)
             /\ (productId \in {Undefined, <<>>} \/ courseId \in {Undefined, <<>>}))
          => (UNCHANGED StoreContents /\ AdminResponse'.status = 400)
     /\ \A bundleProductId \in BodyFields(BundleIds),
          componentProductIds \in BodyComponents, io \in IoChoices(MaxFaults) :
          (PostBundles(bundleProductId, componentProductIds, io)
             /\ (bundleProductId \in {Undefined, <<>>}
                   \/ componentProductIds \in {TagsMissing, TagsString(P111)}))
          => (UNCHANGED StoreContents /\ AdminResponse'.status = 400)
     /\ \A bundleName \in BodyFields(StoreNames), courseId \in BodyFields(Courses),
          io \in IoChoices(MaxFaults) :
          (PostBundleNames(bundleName, courseId, io)
             /\ (bundleName \in {Undefined, <<>>} \/ courseId \in {Undefined, <<>>}))
          => (UNCHANGED StoreContents /\ AdminResponse'.status = 400)]_vars

\* a write without its courseId was turned away while the store held a mapping
C22_Witness ==
  /\ last.op = "invalid"
  /\ last.store = "product"
  /\ last.key = P111
  /\ last.arg = Undefined
  /\ AdminResponse.status = 400
  /\ productToCourseMap # EmptyObj

-----------------------------------------------------------------------------
(* Claims about the order of the calls of an event (SpecWebhook) *)

\* the service was called for line item i
ServiceCalled(i) ==
  \E k \in CallsOf(i, {"enroll", "unenroll"}) : req.log[k].res = "called"

\* C25: within one event the line items are processed one after the other in
\* list order: every call made for item i precedes every call made for a
\* later item, and the service call of item i has returned or thrown before
\* a later item is looked at.
C25_ItemsInListOrder ==
  (req.kind \in OrderKinds)
  => /\ \A k1, k2 \in DOMAIN req.log :
          k1 < k2 => req.log[k1].item <= req.log[k2].item
     /\ \A i \in DOMAIN LineItems :
          (ServiceCalled(i) /\ \E k \in DOMAIN req.log : req.log[k].item > i)
          => CallsOf(i, {"return"}) # {}

\* an event with two line items, both handed to the service
C25_Witness ==
  /\ Done
  /\ WasVerified
  /\ req.kind \in OrderKinds
  /\ ServiceCalled(1)
  /\ ServiceCalled(2)
  /\ CallsOf(1, {"return"}) # {}
  /\ CallsOf(2, {"return"}) # {}

-----------------------------------------------------------------------------
(* Claims about the calls of one service request (SpecService) *)

\* the log entries of the request that are calls of one of the given names,
\* the invocation of the service method itself left out
Requests(calls) ==
  {k \in DOMAIN req.log : req.log[k].call \in calls /\ req.log[k].res # "called"}

\* C26: one enroll or unenroll request issues at most one create-enrollment
\* or delete-enrollment call and at most one create-user call, whatever the
\* API answers.
C26_NoRetry ==
  (req.kind = "direct")
  => /\ Cardinality(Requests({"enroll", "delete"})) <= 1
     /\ Cardinality(Requests({"createUser"})) <= 1

\* an enroll request whose create-user call failed: it threw after one call
C26_Witness ==
  /\ Done
  /\ req.kind = "direct"
  /\ req.op = "enroll"
  /\ req.result = "throw"
  /\ \E k \in Requests({"createUser"}) : req.log[k].res = "error"
  /\ Cardinality(Requests({"createUser"})) = 1

\* C27: createUserIfNotExists looks the email up again and issues the
\* create-user call only when no user with the email exists; for an existing
\* user it issues no create call.
C27_CreateOnlyIfAbsent ==
  [][createUserIfNotExists
     => /\ req.order.email \notin lwUsers
        /\ Cardinality(Requests({"findUser"})) >= 2]_vars

-----------------------------------------------------------------------------
(* Claims about the stores as the webhooks use them (SpecWebhook) *)

\* C28: the enroll/unenroll path only reads the mapping stores: no step of a
\* webhook handler or of the service, the resolves they make included,
\* changes the in-memory contents or the persisted image of a store.
C28_HotPathOnlyReads == [][UNCHANGED StoreContents]_vars

\* an event that resolved by bundle name and enrolled, the stores being as
\* the administrator left them
C28_Witness ==
  /\ Done
  /\ WasVerified
  /\ \E k \in DOMAIN req.log : req.log[k].call = "resolve" /\ req.log[k].course = CourseB
  /\ \E k \in Requests({"enroll"}) : req.log[k].res = "ok"
  /\ productToCourseMap = ObjSet(EmptyObj, P111, CourseA)
  /\ Image(fileProduct) = productToCourseMap
  /\ Image(fileBundleName) = bundleNameToIdMap

-----------------------------------------------------------------------------
(* Claims about the bundle stores (SpecBundles, SpecStore) *)

\* C29: the bundle -> components store is not consumed by resolution: for
\* two processes whose stores differ only in the bundle -> components store,
\* resolve(p, t) returns the same result for every product id p (bundle ids
\* included) and every title t.
C29_ComponentsNotConsumed ==
  (peer.product = productToCourseMap /\ peer.bundleName = bundleNameToIdMap)
  => \A p \in Products \cup BundleIds, t \in Titles :
       getCourseIdForProductOf(ThisProcess, p, t) = getCourseIdForProductOf(peer, p, t)

\* bundle 900 was given the component 111, which is mapped to a course, and
\* bundle 900 still resolves to no course
C29_Witness ==
  /\ last.op = "set"
  /\ last.store = "bundle"
  /\ last.key = B900
  /\ ObjGet(bundleToComponentsMap, B900) = <<P111>>
  /\ ObjHas(productToCourseMap, P111)
  /\ peer.bundle = EmptyObj
  /\ peer.product = productToCourseMap
  /\ peer.bundleName = bundleNameToIdMap
  /\ getCourseIdForProduct(B900, TitleEmpty) = Null

\* the entries of the store whose key has the normal form of the name
EntriesOf(map, name) ==
  {i \in DOMAIN map : Trim(ToLowerCase(map[i].key)) = Trim(ToLowerCase(name))}

\* C30: every key of the bundle-name store is a normalized name: after any
\* sequence of set, remove and list from the empty store each key is its own
\* lower-cased, trimmed form, in memory and in the file; and names that
\* differ only in case or surrounding white space address the same entry.
C30_KeysAreNormalized ==
  /\ \A i \in DOMAIN bundleNameToIdMap :
       bundleNameToIdMap[i].key = Trim(ToLowerCase(bundleNameToIdMap[i].key))
  /\ \A i \in DOMAIN Image(fileBundleName) :
       Image(fileBundleName)[i].key = Trim(ToLowerCase(Image(fileBundleName)[i].key))
  /\ \A n \in VariantNames : Cardinality(EntriesOf(bundleNameToIdMap, n)) <= 1
  /\ (last.store = "bundleName" /\ last.op = "set")
     => \A n \in VariantNames :
          Trim(ToLowerCase(n)) = StoredKey
          => \E i \in EntriesOf(bundleNameToIdMap, n) : bundleNameToIdMap[i].val = last.arg
  /\ (last.store = "bundleName" /\ last.op = "remove")
     => \A n \in VariantNames :
          Trim(ToLowerCase(n)) = StoredKey => EntriesOf(bundleNameToIdMap, n) = {}

\* "Bundle 2" was removed while the store held the other name, the entry
\* having been set as " BUNDLE 2 " or "Bundle 2"
C30_Witness ==
  /\ last.store = "bundleName"
  /\ last.op = "remove"
  /\ last.key = TitleBundle2
  /\ EntriesOf(bundleNameToIdMap, NameBundle2) = {}
  /\ EntriesOf(bundleNameToIdMap, Name2) # {}

-----------------------------------------------------------------------------
(* Claims about the state LearnWorlds is left in *)

\* the course a call of the service is about: the courseId argument, which
\* the services of part_004 take for a Shopify product id and map
DesiredCourse ==
  IF service = "idOnly" THEN req.course
  ELSE getCourseIdForProduct(req.course, TitleEmpty)

\* C31: when enroll or unenroll reports success for (email, course), no other
\* request being in flight, LearnWorlds holds the desired state on return:
\* the user is enrolled in the course after a successful enroll, and not
\* enrolled after a successful unenroll.
C31_SuccessMeansDesiredState ==
  (/\ Done
   /\ req.kind = "direct"
   /\ req.result = "true")
  => IF req.op = "enroll"
     THEN <<req.order.email, DesiredCourse>> \in lwEnrolled
     ELSE <<req.order.email, DesiredCourse>> \notin lwEnrolled

\* C32: the course id in the create-enrollment or delete-enrollment call of a
\* line item is the course the handler's resolver returned for that item:
\* the product is resolved once, and the resolved course is not passed
\* through getCourseIdForProduct a second time.
C32_ResolvedOnce ==
  \A i \in DOMAIN LineItems :
    /\ CallsOf(i, {"resolveAgain"}) = {}
    /\ \A k \in CallsOf(i, {"enroll", "delete"}) \cap Requests({"enroll", "delete"}) :
         \E j \in CallsOf(i, {"resolve"}) : j < k /\ req.log[j].course = req.log[k].course

\* C33: no user is created on LearnWorlds for a product that ends with no
\* course: a line item for which a user was created also has an enroll call
\* for a resolved course, once the event is processed.
C33_CreateOnlyWithEnroll ==
  Done
  => \A i \in DOMAIN LineItems :
       (\E k \in CallsOf(i, {"createUser"}) : req.log[k].res = "ok")
       => \E k \in CallsOf(i, {"enroll"}) \cap Requests({"enroll"}) :
            Truthy(req.log[k].course)

-----------------------------------------------------------------------------
(* Claims about a load that fails (SpecFaults) *)

\* the last operation was a list() whose read of the file failed
ListFailedToRead == last.op = "list" /\ last.io = IoReadFail

\* C34: a failed load destroys no persisted mapping: when list() could not
\* read the file of a store, the file itself being intact, the next set(k, v)
\* of the process leaves every key the file held in the file.
C34_FailedLoadKeepsImage ==
  [][ListFailedToRead
     => /\ \A p \in Products, c \in Courses :
             setProductCourseMapping(p, c, IoOk)
             => OtherKeysKept(Image(fileProduct), Image(fileProduct'), p)
        /\ \A b \in BundleIds, l \in ComponentLists :
             setBundleComponents(b, l, IoOk)
             => OtherKeysKept(Image(fileBundle), Image(fileBundle'), b)
        /\ \A n \in StoreNames, c \in Courses :
             setBundleNameMapping(n, c, IoOk)
             => OtherKeysKept(Image(fileBundleName), Image(fileBundleName'),
                              Trim(ToLowerCase(n)))]_vars

-----------------------------------------------------------------------------
(* Claims about the keys the administrator can create (SpecBundleNames) *)

\* the titles getCourseIdForProduct searches by name
BundleTitles == {t \in Titles : Includes(ToLowerCase(t), StrBundle)}

\* C35: through POST /bundle-names the bundle-name store never holds the
\* empty string as a key, whatever accepted bundleName is posted (one of
\* spaces only included): no entry is a substring of every bundle title.
C35_NoEmptyKey ==
  \A i \in DOMAIN bundleNameToIdMap :
    /\ bundleNameToIdMap[i].key # <<>>
    /\ \E t \in BundleTitles :
         ~Includes(Trim(ToLowerCase(t)), ToLowerCase(bundleNameToIdMap[i].key))

-----------------------------------------------------------------------------
(* Claims about two calls in flight (SpecConcurrent) *)

\* the HTTP requests of a call that are calls of one of the given names
RequestsIn(log, calls) ==
  {k \in DOMAIN log : log[k].call \in calls /\ log[k].res # "called"}

\* a search of the call was answered: no such user
SawNoUser(log) ==
  \E k \in RequestsIn(log, {"findUser", "listUsers"}) : log[k].res = "none"

\* no HTTP request of the call failed
NoErrorIn(log) == \A k \in DOMAIN log : log[k].res # "error"

\* C36: two enroll calls in flight for the same email, which LearnWorlds does
\* not hold yet: whatever the interleaving, at most one create-user call is
\* issued for that email (no API call failing).
C36_OneCreatePerEmail ==
  (/\ req.op = "enroll"
   /\ req.prev.op = "enroll"
   /\ req.order.email = req.prev.order.email
   /\ SawNoUser(req.log) \/ SawNoUser(req.prev.log)
   /\ NoErrorIn(req.log)
   /\ NoErrorIn(req.prev.log))
  => Cardinality(RequestsIn(req.log, {"createUser"}))
       + Cardinality(RequestsIn(req.prev.log, {"createUser"})) <= 1

-----------------------------------------------------------------------------
(* Claims about events that follow one another (SpecWebhook) *)

\* C37: events of one customer and one mapped product that do not overlap,
\* no API call failing: the later event decides.  After an order-created
\* event and then a cancellation the customer is not enrolled in the course;
\* after the cancellation and then the order-created event the customer is
\* enrolled.  Stated on the state LearnWorlds is in when the later event has
\* been processed, whatever events came before it.
C37_LaterEventDecides ==
  (/\ Done
   /\ WasVerified
   /\ NoApiError
   /\ req.kind \in {"create", "cancelled"})
  => \A i \in DOMAIN LineItems :
       \A k \in CallsOf(i, {"resolve"}) :
         (/\ ObjHas(productToCourseMap, LineItems[i].product_id)
          /\ Truthy(req.log[k].course))
         => IF req.kind = "create"
            THEN <<req.order.email, req.log[k].course>> \in lwEnrolled
            ELSE <<req.order.email, req.log[k].course>> \notin lwEnrolled

=============================================================================
